---- MODULE Spec2Model ----
(***************************************************************************)
(* Matchup prediction pipeline of CollegeBasketballPredictionModel:        *)
(* data_loader.load_team_stats (normalizer), predictor.predict_matchup     *)
(* (the pipeline) and main.main (the command-line front end).              *)
(*                                                                         *)
(* Number representation.  Python floats are modelled in fixed point:      *)
(*   statistics (AdjO, 3P_off, ...)   tenths            115.0  -> 1150     *)
(*   weights W_*                      tenths            2.7    -> 27       *)
(*   raw margin                       hundredths                           *)
(*   spread, scale, logistic argument thousandths       5.8    -> 5800     *)
(*   volatility                       1/8400 (exact)                       *)
(*   probabilities                    1/10000           0.99   -> 9900     *)
(* Divisions truncate toward zero (TruncDiv), so negating an input negates *)
(* the result, as it does for IEEE floats.                                 *)
(*                                                                         *)
(* Strings that the code transforms (location, round) are sequences of     *)
(* one-character strings, so that lower(), strip() and capitalize() are    *)
(* computed; team names are only used as dictionary keys and stay atomic.  *)
(***************************************************************************)
EXTENDS Integers, Sequences, FiniteSets, TLC

VARIABLES
    teams,      \* the shared stats table: team name -> dict (main.py:7)
    loaded,     \* history: the table exactly as load_team_stats returned it
    pc,         \* control position of the session / of predict_matchup
    args,       \* arguments of the current predict_matchup call
    copies,     \* the per-call dict copies, keyed "#A" / "#B"
    refA,       \* what the local name teamA refers to (a key of copies or teams)
    refB,       \* what the local name teamB refers to
    local,      \* local variables of predict_matchup
    stages,     \* history: pipeline stages executed so far in this call
    result,     \* outcome of the current call: a result tuple or the exception
    round_input,\* main's validated round token (None when main is not the caller)
    prev        \* history: one earlier completed call, kept for comparison

vars == <<teams, loaded, pc, args, copies, refA, refB, local, stages, result,
          round_input, prev>>

----------------------------------------------------------------------------
(* Bounds of the model *)

\* Strength tiers of the provider's full rows: tiers 1..MaxTier are generated.
MaxTier == 1

----------------------------------------------------------------------------
(* Arithmetic helpers *)

Abs(x) == IF x < 0 THEN -x ELSE x

Max2(x, y) == IF x >= y THEN x ELSE y

Min2(x, y) == IF x <= y THEN x ELSE y

\* Division truncating toward zero (b > 0).
TruncDiv(a, b) == IF a >= 0 THEN a \div b ELSE -((-a) \div b)

\* a * b / c truncated toward zero (b >= 0, c > 0), exact, without a product
\* wider than 32 bits as long as c * b fits.
MulDiv(a, b, c) ==
    LET m == Abs(a)
        q == (m \div c) * b + ((m % c) * b) \div c
    IN  IF a >= 0 THEN q ELSE -q

\* a * b / 1000 for a, b >= 0 without overflowing 32-bit intermediate products.
MulMilli(a, b) == (a \div 1000) * b + ((a % 1000) * b) \div 1000

----------------------------------------------------------------------------
(* String helpers: Python str.lower, str.strip, str.capitalize *)

UpperLetters == <<"A","B","C","D","E","F","G","H","I","J","K","L","M",
                  "N","O","P","Q","R","S","T","U","V","W","X","Y","Z">>

LowerLetters == <<"a","b","c","d","e","f","g","h","i","j","k","l","m",
                  "n","o","p","q","r","s","t","u","v","w","x","y","z">>

LowerChar(c) ==
    IF \E i \in DOMAIN UpperLetters : UpperLetters[i] = c
    THEN LowerLetters[CHOOSE i \in DOMAIN UpperLetters : UpperLetters[i] = c]
    ELSE c

UpperChar(c) ==
    IF \E i \in DOMAIN LowerLetters : LowerLetters[i] = c
    THEN UpperLetters[CHOOSE i \in DOMAIN LowerLetters : LowerLetters[i] = c]
    ELSE c

Lower(s) == [i \in DOMAIN s |-> LowerChar(s[i])]

Capitalize(s) == [i \in DOMAIN s |-> IF i = 1 THEN UpperChar(s[i]) ELSE LowerChar(s[i])]

RECURSIVE StripLeft(_)
StripLeft(s) == IF s # << >> /\ Head(s) = " " THEN StripLeft(Tail(s)) ELSE s

RECURSIVE StripRight(_)
StripRight(s) ==
    IF s # << >> /\ s[Len(s)] = " " THEN StripRight(SubSeq(s, 1, Len(s) - 1)) ELSE s

Strip(s) == StripRight(StripLeft(s))

\* Python's None, for an argument that is otherwise a string.
NoneValue == <<"None">>

\* Python truthiness of an optional string: None and "" are falsy.
Truthy(s) == s # NoneValue /\ s # << >>

STR_regular == <<"r","e","g","u","l","a","r">>
STR_round1 == <<"r","o","u","n","d","1">>
STR_round2 == <<"r","o","u","n","d","2">>
STR_sweet16 == <<"s","w","e","e","t","1","6">>
STR_elite8 == <<"e","l","i","t","e","8">>
STR_final4 == <<"f","i","n","a","l","4">>
STR_championship == <<"c","h","a","m","p","i","o","n","s","h","i","p">>
STR_home == <<"h","o","m","e">>
STR_away == <<"a","w","a","y">>
STR_neutral == <<"n","e","u","t","r","a","l">>

----------------------------------------------------------------------------
(* data_loader.py *)

FALLBACKS ==
    [AdjO |-> 1150, AdjD |-> 950, AdjTempo |-> 700, eFG_off |-> 500,
     TO_off |-> 150, ORB_off |-> 300, ORB_def |-> 300, FTR_off |-> 0,
     FTR_def |-> 0, 3P_off |-> 300, 3P_def |-> 300, PostOff |-> 500,
     PostDef |-> 500, Height |-> 750, RoadAdj |-> 0, Experience |-> 20,
     Seed |-> 0]

FIELD_COLUMNS ==
    [AdjO |-> <<"AdjO", "AdjOE">>,
     AdjD |-> <<"AdjD", "AdjDE">>,
     AdjTempo |-> <<"AdjTempo", "AdjT">>,
     eFG_off |-> <<"Off-eFG%_ff", "Off-eFG%_eff", "Off_eFG%">>,
     TO_off |-> <<"Off-TO%_ff", "Off-TO%_eff", "Off_TO%">>,
     ORB_off |-> <<"Off-OR%_ff", "ORB">>,
     ORB_def |-> <<"Def-OR%_ff", "ORB_def">>,
     FTR_off |-> <<"Off-FTRate_eff", "Off-FTRate">>,
     FTR_def |-> <<"Def-FTRate_eff", "Def-FTRate">>,
     3P_off |-> <<"3P_off_dist", "Off_3P%", "3P_off">>,
     3P_def |-> <<"3P_def_dist", "Def_3P%", "3P_def">>,
     PostOff |-> <<"PostOff_dist", "Off_2P%", "PostOff">>,
     PostDef |-> <<"PostDef_dist", "Def_2P%", "PostDef">>,
     Height |-> <<"Height", "AvgHeight">>,
     RoadAdj |-> <<"RoadAdj", "RoadAdj_eff">>,
     Experience |-> <<"Experience">>,
     Seed |-> <<"Seed", "Seed_eff", "Seed_ff">>]

\* A cell of the merged data frame: a number (in tenths), NaN, or a value
\* that float()/int() rejects.
Num(v) == [kind |-> "num", v |-> v]
NaN == [kind |-> "nan", v |-> 0]
Text == [kind |-> "text", v |-> 0]

\* The first column of cols[i..] that is in the row, is not NaN and converts.
RECURSIVE FirstUsable(_, _, _)
FirstUsable(row, cols, i) ==
    IF i > Len(cols) THEN 0
    ELSE IF cols[i] \in DOMAIN row /\ row[cols[i]].kind = "num" THEN i
    ELSE FirstUsable(row, cols, i + 1)

\* get_field: float(row[col]) of the first usable column, else the fallback.
get_field(row, field, fallback) ==
    LET cols == FIELD_COLUMNS[field]
        i == FirstUsable(row, cols, 1)
    IN  IF i = 0 THEN fallback ELSE row[cols[i]].v

\* get_int_field: int(row[col]) truncates the number toward zero; the result
\* is a whole number (not tenths).
get_int_field(row, field, fallback) ==
    LET cols == FIELD_COLUMNS[field]
        i == FirstUsable(row, cols, 1)
    IN  IF i = 0 THEN fallback ELSE TruncDiv(row[cols[i]].v, 10)

\* The dict load_team_stats builds for one row of the merged frame.
NormalizeRow(row) ==
    LET adjO == get_field(row, "AdjO", FALLBACKS["AdjO"])
        adjD == get_field(row, "AdjD", FALLBACKS["AdjD"])
    IN  [AdjO |-> adjO,
         AdjD |-> adjD,
         AdjEM |-> adjO - adjD,
         AdjTempo |-> get_field(row, "AdjTempo", FALLBACKS["AdjTempo"]),
         eFG_off |-> get_field(row, "eFG_off", FALLBACKS["eFG_off"]),
         TO_off |-> get_field(row, "TO_off", FALLBACKS["TO_off"]),
         ORB_off |-> get_field(row, "ORB_off", FALLBACKS["ORB_off"]),
         ORB_def |-> get_field(row, "ORB_def", FALLBACKS["ORB_def"]),
         FTR_off |-> get_field(row, "FTR_off", FALLBACKS["FTR_off"]),
         FTR_def |-> get_field(row, "FTR_def", FALLBACKS["FTR_def"]),
         3P_off |-> get_field(row, "3P_off", FALLBACKS["3P_off"]),
         3P_def |-> get_field(row, "3P_def", FALLBACKS["3P_def"]),
         PostOff |-> get_field(row, "PostOff", FALLBACKS["PostOff"]),
         PostDef |-> get_field(row, "PostDef", FALLBACKS["PostDef"]),
         Height |-> get_field(row, "Height", FALLBACKS["Height"]),
         Experience |-> get_field(row, "Experience", FALLBACKS["Experience"]),
         RoadAdj |-> get_field(row, "RoadAdj", FALLBACKS["RoadAdj"]),
         Seed |-> get_int_field(row, "Seed", FALLBACKS["Seed"])]

\* load_team_stats: one normalized dict per row, keyed by the row's team.
load_team_stats(frame) == [t \in DOMAIN frame |-> NormalizeRow(frame[t])]

----------------------------------------------------------------------------
(* The scraped data: rows of the merged data frame, by source column *)

TeamNames == {"Duke", "UNC"}

\* A name the user may type that is in no frame.
UnknownName == "Nowhere"

\* A full row as the provider's endpoints give it (percentages), tier k.
\* Tier 1 is the record AdjO=115, AdjD=95, AdjTempo=70, Height=75, 3P_off=35,
\* 3P_def=30, ORB_off=32, ORB_def=30, TO_off=15 (RoadAdj absent, hence 0).
RowKenpom(k) ==
    [c \in {"AdjOE", "AdjDE", "AdjT", "Off-TO%_ff", "Off-OR%_ff", "Def-OR%_ff",
            "3P_off_dist", "3P_def_dist", "PostOff_dist", "PostDef_dist",
            "Height", "Experience", "Seed"} |->
        CASE c = "AdjOE" -> Num(1090 + 60 * k)
          [] c = "AdjDE" -> Num(980 - 30 * k)
          [] c = "AdjT" -> Num(680 + 20 * k)
          [] c = "Off-TO%_ff" -> Num(160 - 10 * k)
          [] c = "Off-OR%_ff" -> Num(300 + 20 * k)
          [] c = "Def-OR%_ff" -> Num(300)
          [] c = "3P_off_dist" -> Num(300 + 50 * k)
          [] c = "3P_def_dist" -> Num(300)
          [] c = "PostOff_dist" -> Num(480 + 40 * k)
          [] c = "PostDef_dist" -> Num(520 - 40 * k)
          [] c = "Height" -> Num(740 + 10 * k)
          [] c = "Experience" -> Num(15 + 8 * k)
          [] c = "Seed" -> Num(10 * (9 - 4 * k))]

\* A row whose shooting shares are fractions (0.3 for 30%), with NaN and
\* non-numeric cells in the preferred columns, tier k.
RowFraction(k) ==
    [c \in {"AdjO", "AdjOE", "AdjD", "AdjTempo", "3P_off_dist", "Off_3P%",
            "3P_def_dist", "3P_def", "RoadAdj_eff", "Experience", "Seed",
            "Seed_eff"} |->
        CASE c = "AdjO" -> NaN
          [] c = "AdjOE" -> Num(1000 + 300 * k)
          [] c = "AdjD" -> Num(1000 - 200 * k)
          [] c = "AdjTempo" -> Num(700 - 40 * k)
          [] c = "3P_off_dist" -> NaN
          [] c = "Off_3P%" -> Num(3)
          [] c = "3P_def_dist" -> Text
          [] c = "3P_def" -> Num(3)
          [] c = "RoadAdj_eff" -> Num(20 * k)
          [] c = "Experience" -> Text
          [] c = "Seed" -> Text
          [] c = "Seed_eff" -> Num(125 - 40 * k)]

\* A row with none of the columns the normalizer looks for.
RowEmpty == [c \in {} |-> NaN]

Rows == {RowKenpom(k) : k \in 1..MaxTier} \cup {RowFraction(0), RowFraction(1)}
            \cup {RowEmpty}

\* The merged data frames the provider may return.
Frames == [TeamNames -> Rows]

----------------------------------------------------------------------------
(* predictor.py: constants *)

W_HEIGHT == 1
W_3P == 50
W_ORB == 30
W_TO == 27
W_2P == 40
W_ROAD == 20
C_FACTOR == 88
base_scale == 5800
PROB_MAX == 9900
PROB_MIN == 100
ProbOne == 10000

----------------------------------------------------------------------------
(* Python dict and reference semantics *)

\* dict.get(key, default)
Get(d, key, default) == IF key \in DOMAIN d THEN d[key] ELSE default

\* d[key] = val on a dict value (adds the key when absent)
SetItem(d, key, val) ==
    [k \in DOMAIN d \cup {key} |-> IF k = key THEN val ELSE d[k]]

\* The dict objects: the table's own dicts (by team name) and the per-call
\* copies (by "#A" / "#B").  A reference is a key of one of the two.
Deref(tbl, cps, ref) == IF ref \in DOMAIN cps THEN cps[ref] ELSE tbl[ref]

\* obj[key] = val through a reference: the heap after the store.
Store(heap, ref, key, val) ==
    IF ref \in DOMAIN heap.copies
    THEN [heap EXCEPT !.copies[ref] = SetItem(@, key, val)]
    ELSE [heap EXCEPT !.teams[ref] = SetItem(@, key, val)]

NoCopies == [r \in {} |-> 0]

----------------------------------------------------------------------------
(* adjustments.py, experience.py, upset_factors.py: the three adjusters    *)
(* predictor.py imports.  Their contracts are sections 4.1, 4.4 and 4.5 of *)
(* the specification.                                                      *)

\* The fixed home-court offset, in tenths of a point per 100 possessions.
HOME_COURT_ADV == 30

\* apply_home_court(teamA, teamB, location): mutates the two dicts it is
\* given in place; the hosting side's offence gets the offset, a neutral
\* site changes nothing.
apply_home_court(heap, rA, rB, location) ==
    LET dA == Deref(heap.teams, heap.copies, rA)
        dB == Deref(heap.teams, heap.copies, rB)
    IN  IF Lower(location) = STR_home
        THEN Store(heap, rA, "AdjO", dA["AdjO"] + HOME_COURT_ADV)
        ELSE IF Lower(location) = STR_away
        THEN Store(heap, rB, "AdjO", dB["AdjO"] + HOME_COURT_ADV)
        ELSE heap

\* Probability shift per tenth of a year of experience edge (1/10000 units).
EXPERIENCE_WEIGHT == 10

\* apply_experience_bonus(teamA, teamB, pA, pB): the more experienced side
\* gains; the pair still sums to one and stays inside (0, 1).
apply_experience_bonus(dA, dB, pA, pB) ==
    LET edge == Get(dA, "Experience", 0) - Get(dB, "Experience", 0)
        qA == Max2(Min2(pA + EXPERIENCE_WEIGHT * edge, 9900), 100)
    IN  [A |-> qA, B |-> (pA + pB) - qA]

\* Historical upset allowance of a tournament round (1/10000 units).
UpsetShift(round_name) ==
    LET r == Lower(round_name)
    IN  CASE r = STR_round1 -> 500
          [] r = STR_round2 -> 400
          [] r = STR_sweet16 -> 300
          [] r = STR_elite8 -> 200
          [] r = STR_final4 -> 100
          [] r = STR_championship -> 100
          [] OTHER -> 0

\* adjust_for_upset_trends(teamA, teamB, win_probs, round_name): moves the
\* round's allowance from the better seed to the worse one; unseeded or
\* equally seeded sides are left alone.  Keys are the teams' names.
adjust_for_upset_trends(dA, dB, win_probs, round_name) ==
    LET sA == Get(dA, "Seed", 0)
        sB == Get(dB, "Seed", 0)
        fav == IF sA < sB THEN dA["name"] ELSE dB["name"]
        dog == IF sA < sB THEN dB["name"] ELSE dA["name"]
        total == win_probs[fav] + win_probs[dog]
        favP == Max2(win_probs[fav] - UpsetShift(round_name), 100)
    IN  IF sA = sB \/ sA = 0 \/ sB = 0 \/ fav = dog
        THEN win_probs
        ELSE [n \in DOMAIN win_probs |-> IF n = fav THEN favP ELSE total - favP]

----------------------------------------------------------------------------
(* predictor.py: predict_matchup, stage by stage *)

\* line 39: the membership test that guards the whole pipeline
\* (EitherKnown: the test written with "and" for "or")
EitherKnown(a, b, tbl) == a \in DOMAIN tbl \/ b \in DOMAIN tbl
BothKnown(a, b, tbl) == a \in DOMAIN tbl /\ b \in DOMAIN tbl

\* lines 43-44: teams[name].copy() yields a reference to a fresh dict
\* (DictAlias: teams[name] without .copy(), a reference to the table's dict)
DictAlias(fresh, orig) == orig
DictCopy(fresh, orig) == fresh

\* line 52
base_margin(dA, dB) == (dA["AdjO"] - dA["AdjD"]) - (dB["AdjO"] - dB["AdjD"])

\* lines 55-58
height_diff(dA, dB) == Get(dA, "Height", 0) - Get(dB, "Height", 0)
three_diff(dA, dB) == Get(dA, "3P_off", 0) - Get(dB, "3P_def", 0)
orb_diff(dA, dB) == Get(dA, "ORB_off", 0) - Get(dB, "ORB_def", 0)
to_diff(dA, dB) == Get(dB, "TO_off", 0) - Get(dA, "TO_off", 0)

\* line 59: the normalizer writes no "2P_off" / "2P_def" key
\* (two_diff_PostAlias: the same line reading PostOff / PostDef instead)
two_diff_PostAlias(dA, dB) == Get(dA, "PostOff", 0) - Get(dB, "PostDef", 0)
two_diff(dA, dB) == Get(dA, "2P_off", 0) - Get(dB, "2P_def", 0)

\* lines 60-62
road_adj(dA, location) ==
    IF Lower(location) = STR_away THEN Get(dA, "RoadAdj", 0) ELSE 0

\* lines 64-69, in hundredths
extra_margin(dA, dB, location) ==
    W_HEIGHT * height_diff(dA, dB) +
    W_3P * three_diff(dA, dB) +
    W_ORB * orb_diff(dA, dB) +
    W_TO * to_diff(dA, dB) +
    W_2P * two_diff(dA, dB) -
    W_ROAD * road_adj(dA, location)

\* line 72, in hundredths
raw_margin(dA, dB, location) == 10 * base_margin(dA, dB) + extra_margin(dA, dB, location)

\* line 78: twice avg_possessions, in tenths
TempoSum(dA, dB) == Get(dA, "AdjTempo", 700) + Get(dB, "AdjTempo", 700)

\* lines 75-79: raw * C_FACTOR * (avg_possessions / 100), in thousandths
SpreadOf(dA, dB, location) ==
    MulDiv(raw_margin(dA, dB, location) * C_FACTOR, TempoSum(dA, dB), 20000)

\* lines 82-84: ((avg_3pt / 0.30) * (avg_tempo / 70.0)) - 1.0, in 1/8400
VolatilityOf(dA, dB) ==
    (Get(dA, "3P_off", 0) + Get(dB, "3P_off", 0)) * TempoSum(dA, dB) - 8400

\* lines 87-91: base_scale * (1 + 0.5 * volatility), floored at base_scale
\* (ScaleUnfloored: lines 90-91 left out)
ScaleUnfloored(vol) == base_scale + TruncDiv(29 * vol, 84)
ScaleOf(vol) ==
    LET scale == base_scale + TruncDiv(29 * vol, 84)
    IN  IF scale < base_scale THEN base_scale ELSE scale

\* math.exp in thousandths: e^n by repeated multiplication, e^f by its series
RECURSIVE EPow(_)
EPow(n) == IF n = 0 THEN 1000 ELSE MulMilli(EPow(n - 1), 2718)

ExpFrac(f) ==
    LET t2 == (f * f) \div 2000
        t3 == (t2 * f) \div 3000
        t4 == (t3 * f) \div 4000
        t5 == (t4 * f) \div 5000
        t6 == (t5 * f) \div 6000
    IN  1000 + f + t2 + t3 + t4 + t5 + t6

\* Beyond +-13 the logistic is 0 or 1 at this resolution; the argument is
\* held there so that products stay in range.
ExpMilli(y) ==
    LET c == Max2(Min2(y, 13000), -13000)
        pos == MulMilli(EPow(Abs(c) \div 1000), ExpFrac(Abs(c) % 1000))
    IN  IF c >= 0 THEN pos ELSE 1000000 \div pos

\* line 94: 1.0 / (1.0 + math.exp(-spread / scale))
Logistic(spread, scale) ==
    10000000 \div (1000 + ExpMilli(TruncDiv((-spread) * 1000, scale)))

\* line 95: max(min(p, 0.99), 0.01)
\* (NoClamp: line 95 left out)
NoClamp(p) == p
Clamp(p) == Max2(Min2(p, PROB_MAX), PROB_MIN)

\* line 102: round_name and round_name.lower() != "regular"
\* (GateCaseSensitive: the comparison without .lower())
GateCaseSensitive(round_name) == Truthy(round_name) /\ round_name # STR_regular
UpsetGate(round_name) == Truthy(round_name) /\ Lower(round_name) # STR_regular

\* line 103: {teamA_name: win_prob_A, teamB_name: win_prob_B}; with equal
\* names the later entry replaces the earlier one
WinProbsDict(a, b, pA, pB) == [n \in {a, b} |-> IF n = b THEN pB ELSE pA]

\* lines 108-110
\* (DecideStrict: the comparison with > for >=)
DecideStrict(a, b, pA, pB, spread) ==
    [winner |-> IF pA > pB THEN a ELSE b,
     winner_prob |-> Max2(pA, pB),
     win_prob_A |-> pA, win_prob_B |-> pB, spread |-> spread]
Decide(a, b, pA, pB, spread) ==
    [winner |-> IF pA >= pB THEN a ELSE b,
     winner_prob |-> Max2(pA, pB),
     win_prob_A |-> pA, win_prob_B |-> pB, spread |-> spread]

----------------------------------------------------------------------------
(* State *)

NoArgs == [a |-> "", b |-> "", location |-> << >>, round_name |-> NoneValue]

Locals0 ==
    [base_margin |-> 0, height_diff |-> 0, three_diff |-> 0, orb_diff |-> 0,
     to_diff |-> 0, two_diff |-> 0, road_adj |-> 0, spread |-> 0,
     volatility |-> 0, scale |-> 0, win_prob_A |-> 0, win_prob_B |-> 0,
     exp_prob_A |-> 0, exp_prob_B |-> 0]

NoResult == [kind |-> "none"]
Raised(exc) == [kind |-> exc]
Returned(tuple) == [kind |-> "tuple", value |-> tuple]

NoPrev == [set |-> FALSE]

teamA == Deref(teams, copies, refA)
teamB == Deref(teams, copies, refB)

Init ==
    /\ teams = [t \in {} |-> 0]
    /\ loaded = [t \in {} |-> 0]
    /\ pc = "load"
    /\ args = NoArgs
    /\ copies = NoCopies
    /\ refA = ""
    /\ refB = ""
    /\ local = Locals0
    /\ stages = << >>
    /\ result = NoResult
    /\ round_input = NoneValue
    /\ prev = NoPrev

----------------------------------------------------------------------------
(* main.py *)

\* What the user may type at the prompts.
NameInputs == TeamNames \cup {UnknownName}

LocationInputs ==
    {<<"H","o","m","e">>, <<" ","a","w","a","y">>, <<"N","E","U","T","R","A","L"," ">>,
     <<"c","o","u","r","t">>}

RoundInputs ==
    {<<"R","e","g","u","l","a","r">>, <<" ","S","W","E","E","T","1","6">>,
     <<"f","i","n","a","l","s">>}

valid_locations == {STR_home, STR_away, STR_neutral}

valid_rounds ==
    {STR_regular, STR_round1, STR_round2, STR_sweet16, STR_elite8, STR_final4,
     STR_championship}

\* line 23: None if round_input == "regular" else round_input.capitalize()
RoundNameOf(token) ==
    IF token = STR_regular THEN NoneValue ELSE Capitalize(token)

\* line 7: teams = load_team_stats()
Load ==
    /\ pc = "load"
    /\ \E frame \in Frames :
          /\ teams' = load_team_stats(frame)
          /\ loaded' = load_team_stats(frame)
    /\ pc' = "idle"
    /\ UNCHANGED <<args, copies, refA, refB, local, stages, result, round_input, prev>>

\* lines 12-26: the prompts (each loop ends only on a valid token), then the
\* call of predict_matchup
MainCall ==
    /\ pc = "idle"
    /\ \E team1 \in NameInputs, team2 \in NameInputs,
          locTyped \in LocationInputs, roundTyped \in RoundInputs :
          LET location == Lower(Strip(locTyped))
              round_typed == Lower(Strip(roundTyped))
          IN  /\ location \in valid_locations
              /\ round_typed \in valid_rounds
              /\ round_input' = round_typed
              /\ args' = [a |-> team1, b |-> team2, location |-> location,
                          round_name |-> RoundNameOf(round_typed)]
    /\ pc' = "check"
    /\ stages' = << >>
    /\ result' = NoResult
    /\ UNCHANGED <<teams, loaded, copies, refA, refB, local, prev>>

----------------------------------------------------------------------------
(* predictor.py: predict_matchup as a sequence of steps *)

\* Round arguments of callers other than main (main itself passes None or a
\* capitalized token).
DirectRounds ==
    {<< >>, <<"R","E","G","U","L","A","R">>, <<"R","o","u","n","d","1">>}

\* line 18: a call with location="neutral" (the default) and any round_name
DirectCall ==
    /\ pc = "idle"
    /\ \E a \in NameInputs, b \in NameInputs, round_name \in DirectRounds :
          args' = [a |-> a, b |-> b, location |-> STR_neutral,
                   round_name |-> round_name]
    /\ round_input' = NoneValue
    /\ pc' = "check"
    /\ stages' = << >>
    /\ result' = NoResult
    /\ UNCHANGED <<teams, loaded, copies, refA, refB, local, prev>>

\* lines 39-40
CheckTeams ==
    /\ pc = "check"
    /\ IF BothKnown(args.a, args.b, teams)
       THEN pc' = "copy" /\ result' = result
       ELSE pc' = "raised" /\ result' = Raised("ValueError")
    /\ UNCHANGED <<teams, loaded, args, copies, refA, refB, local, stages, round_input, prev>>

\* lines 43-46: teams[...] raises KeyError for a missing key (which the test
\* at line 39 rules out)
CopyStats ==
    /\ pc = "copy"
    /\ IF args.a \notin DOMAIN teams \/ args.b \notin DOMAIN teams
       THEN /\ pc' = "raised"
            /\ result' = Raised("KeyError")
            /\ UNCHANGED <<teams, copies, refA, refB>>
       ELSE LET rA == DictCopy("#A", args.a)
                rB == DictCopy("#B", args.b)
                h0 == [teams |-> teams,
                       copies |-> [r \in {"#A", "#B"} |->
                                     IF r = "#A" THEN teams[args.a] ELSE teams[args.b]]]
                h1 == Store(h0, rA, "name", args.a)
                h2 == Store(h1, rB, "name", args.b)
            IN  /\ teams' = h2.teams
                /\ copies' = h2.copies
                /\ refA' = rA
                /\ refB' = rB
                /\ pc' = "home"
                /\ result' = result
    /\ UNCHANGED <<loaded, args, local, stages, round_input, prev>>

\* line 49
HomeCourt ==
    /\ pc = "home"
    /\ LET h == apply_home_court([teams |-> teams, copies |-> copies],
                                 refA, refB, args.location)
       IN  teams' = h.teams /\ copies' = h.copies
    /\ stages' = Append(stages, "home_court")
    /\ pc' = "margin"
    /\ UNCHANGED <<loaded, args, refA, refB, local, result, round_input, prev>>

\* lines 52-79
Margin ==
    /\ pc = "margin"
    /\ local' = [local EXCEPT
                   !.base_margin = base_margin(teamA, teamB),
                   !.height_diff = height_diff(teamA, teamB),
                   !.three_diff = three_diff(teamA, teamB),
                   !.orb_diff = orb_diff(teamA, teamB),
                   !.to_diff = to_diff(teamA, teamB),
                   !.two_diff = two_diff(teamA, teamB),
                   !.road_adj = road_adj(teamA, args.location),
                   !.spread = SpreadOf(teamA, teamB, args.location)]
    /\ stages' = Append(stages, "margin")
    /\ pc' = "logistic"
    /\ UNCHANGED <<teams, loaded, args, copies, refA, refB, result, round_input, prev>>

\* lines 82-96
LogisticStage ==
    /\ pc = "logistic"
    /\ LET vol == VolatilityOf(teamA, teamB)
           scale == ScaleOf(vol)
           pA == Clamp(Logistic(local.spread, scale))
       IN  local' = [local EXCEPT !.volatility = vol, !.scale = scale,
                                  !.win_prob_A = pA, !.win_prob_B = ProbOne - pA]
    /\ stages' = Append(stages, "logistic")
    /\ pc' = "experience"
    /\ UNCHANGED <<teams, loaded, args, copies, refA, refB, result, round_input, prev>>

\* line 99
Experience ==
    /\ pc = "experience"
    /\ LET p == apply_experience_bonus(teamA, teamB, local.win_prob_A, local.win_prob_B)
       IN  local' = [local EXCEPT !.win_prob_A = p.A, !.win_prob_B = p.B,
                                  !.exp_prob_A = p.A, !.exp_prob_B = p.B]
    /\ stages' = Append(stages, "experience")
    /\ pc' = "gate"
    /\ UNCHANGED <<teams, loaded, args, copies, refA, refB, result, round_input, prev>>

\* lines 102-106
Upset ==
    /\ pc = "gate"
    /\ UpsetGate(args.round_name)
    /\ LET win_probs == adjust_for_upset_trends(teamA, teamB,
                            WinProbsDict(args.a, args.b, local.win_prob_A, local.win_prob_B),
                            args.round_name)
       IN  local' = [local EXCEPT !.win_prob_A = win_probs[args.a],
                                  !.win_prob_B = win_probs[args.b]]
    /\ stages' = Append(stages, "upset")
    /\ pc' = "decide"
    /\ UNCHANGED <<teams, loaded, args, copies, refA, refB, result, round_input, prev>>

\* lines 108-110, reached past the upset block or around it
Return ==
    /\ pc = "decide" \/ (pc = "gate" /\ ~UpsetGate(args.round_name))
    /\ result' = Returned(Decide(args.a, args.b, local.win_prob_A, local.win_prob_B,
                                 local.spread))
    /\ pc' = "returned"
    /\ UNCHANGED <<teams, loaded, args, copies, refA, refB, local, stages, round_input, prev>>

\* The call is over (main.py lines 27-52 only print): its frame is dropped.
\* The table is held for the lifetime of the session, which may serve further
\* requests; the finished call may be kept in prev for comparison with a
\* later one.
Finish ==
    /\ pc \in {"returned", "raised"}
    /\ \E keep \in BOOLEAN :
          prev' = IF keep
                  THEN [set |-> TRUE, args |-> args, result |-> result,
                        volatility |-> local.volatility, scale |-> local.scale,
                        ran |-> stages]
                  ELSE prev
    /\ pc' = "idle"
    /\ args' = NoArgs
    /\ copies' = NoCopies
    /\ refA' = ""
    /\ refB' = ""
    /\ local' = Locals0
    /\ stages' = << >>
    /\ result' = NoResult
    /\ round_input' = NoneValue
    /\ UNCHANGED <<teams, loaded>>

Next ==
    \/ Load
    \/ MainCall
    \/ DirectCall
    \/ CheckTeams
    \/ CopyStats
    \/ HomeCourt
    \/ Margin
    \/ LogisticStage
    \/ Experience
    \/ Upset
    \/ Return
    \/ Finish

Spec == Init /\ [][Next]_vars

----------------------------------------------------------------------------
(* Properties *)

\* Positions of predict_matchup at which a given stage has completed.
MarginDone == pc \in {"logistic", "experience", "gate", "decide", "returned"}
LogisticDone == pc \in {"experience", "gate", "decide", "returned"}
CallActive == pc \notin {"load", "idle"}
IsTuple(r) == r.kind = "tuple"
Half == ProbOne \div 2

\* The statistics of a dict, without the identity the predictor adds.
StatKeys == DOMAIN FALLBACKS \cup {"AdjEM"}
SameStats(d1, d2) == \A k \in StatKeys : d1[k] = d2[k]

\* C1: a call naming a team that is not in the table raises ValueError at
\* the membership test: the call is never seen past that test, no stage has
\* run, no dict has been copied, nothing is returned and the table is as
\* loaded.
C1_UnknownTeamRaisesFirst ==
    (CallActive /\ (args.a \notin DOMAIN loaded \/ args.b \notin DOMAIN loaded)) =>
        /\ pc \in {"check", "raised"}
        /\ pc = "raised" => result = Raised("ValueError")
        /\ pc = "check" => result = NoResult
        /\ stages = << >>
        /\ copies = NoCopies
        /\ teams = loaded

\* A call with a known first and an unknown second team has raised.
C1_Witness ==
    /\ pc = "raised"
    /\ result = Raised("ValueError")
    /\ args.a \in DOMAIN teams
    /\ args.b \notin DOMAIN teams

\* C2 (as claimed): two teams of the table with identical statistics,
\* neutral site, no tournament round: base margin 0, every extra
\* differential 0, spread 0, both probabilities 0.5 and team A the winner.
C2_IdenticalTeamsEven ==
    (/\ pc = "returned"
     /\ IsTuple(result)
     /\ args.a # args.b
     /\ SameStats(loaded[args.a], loaded[args.b])
     /\ args.location = STR_neutral
     /\ (args.round_name = NoneValue \/ Lower(args.round_name) = STR_regular)) =>
        /\ local.base_margin = 0
        /\ local.height_diff = 0
        /\ local.three_diff = 0
        /\ local.orb_diff = 0
        /\ local.to_diff = 0
        /\ local.two_diff = 0
        /\ result.value.spread = 0
        /\ result.value.win_prob_A = Half
        /\ result.value.win_prob_B = Half
        /\ result.value.winner = args.a

\* C3 (as claimed): at a neutral site with the same round, predict(B, A)
\* mirrors predict(A, B): the spread is negated and the probabilities are
\* exchanged.
C3_MirrorAtNeutralSite ==
    (/\ pc = "returned"
     /\ IsTuple(result)
     /\ prev.set
     /\ IsTuple(prev.result)
     /\ prev.args.a = args.b
     /\ prev.args.b = args.a
     /\ args.location = STR_neutral
     /\ prev.args.location = STR_neutral
     /\ prev.args.round_name = args.round_name) =>
        /\ result.value.spread = -prev.result.value.spread
        /\ result.value.win_prob_B = prev.result.value.win_prob_A

\* C4 (as claimed): when the two teams' 3P_off average the normalizer's 30%
\* baseline (30.0) and their AdjTempo average 70, the volatility is 0 and
\* the scale is the base scale 5.8.
C4_BaselineVolatilityZero ==
    (/\ LogisticDone
     /\ teamA["3P_off"] + teamB["3P_off"] = 2 * FALLBACKS["3P_off"]
     /\ teamA["AdjTempo"] + teamB["AdjTempo"] = 2 * 700) =>
        /\ local.volatility = 0
        /\ local.scale = base_scale

\* C5: right after the logistic stage both probabilities lie in
\* [0.01, 0.99] and sum to one.
C5_LogisticRange ==
    pc = "experience" =>
        /\ PROB_MIN <= local.win_prob_A /\ local.win_prob_A <= PROB_MAX
        /\ PROB_MIN <= local.win_prob_B /\ local.win_prob_B <= PROB_MAX
        /\ local.win_prob_A + local.win_prob_B = ProbOne

\* The unclamped logistic value is below 0.01 and the stage delivered 0.01.
C5_Witness ==
    /\ pc = "experience"
    /\ Logistic(local.spread, local.scale) < PROB_MIN
    /\ local.win_prob_A = PROB_MIN
    /\ local.win_prob_B = PROB_MAX

\* The rounds the claim calls regular: None, "", "regular" in any case.
RegularRound(r) == r = NoneValue \/ r = << >> \/ Lower(r) = STR_regular

\* C6: for a regular round the upset adjuster is not invoked and the call
\* returns what the decision on the post-experience probabilities gives;
\* for any other round it is invoked exactly once, after the experience
\* stage and before the decision.  main passes None for "regular" and a
\* non-regular round for every other valid token.
C6_RoundGate ==
    /\ (pc = "returned" /\ RegularRound(args.round_name)) =>
          /\ stages = <<"home_court", "margin", "logistic", "experience">>
          /\ result = Returned(Decide(args.a, args.b, local.exp_prob_A,
                                      local.exp_prob_B, local.spread))
    /\ (pc = "returned" /\ ~RegularRound(args.round_name)) =>
          stages = <<"home_court", "margin", "logistic", "experience", "upset">>
    /\ (pc = "decide") => ~RegularRound(args.round_name)
    /\ (pc = "check" /\ round_input # NoneValue) =>
          IF round_input = STR_regular
          THEN args.round_name = NoneValue
          ELSE ~RegularRound(args.round_name)

\* A call with round "REGULAR" returned without the upset stage although
\* that stage would have changed the probabilities.
C6_Witness ==
    /\ pc = "returned"
    /\ args.round_name = <<"R","E","G","U","L","A","R">>
    /\ LET d == WinProbsDict(args.a, args.b, local.exp_prob_A, local.exp_prob_B)
       IN  adjust_for_upset_trends(teamA, teamB, d, STR_round1) # d

\* C7: once loaded the table never changes, and a call with the arguments
\* of an earlier call ends as that call did.
C7_TableUntouched ==
    /\ pc # "load" => teams = loaded
    /\ (pc \in {"returned", "raised"} /\ prev.set /\ prev.args = args) =>
          prev.result = result

\* A home game repeated: the adjuster changed the copy, not the table.
C7_Witness ==
    /\ pc = "returned"
    /\ prev.set
    /\ prev.args = args
    /\ args.location = STR_home
    /\ teamA["AdjO"] # teams[args.a]["AdjO"]
    /\ "name" \in DOMAIN teamA
    /\ "name" \notin DOMAIN teams[args.a]

\* C8: when the final probabilities sum to one, the winner is team A
\* exactly when win_prob_A >= 0.5, and winner_prob is that side's
\* probability and at least 0.5.
C8_DecisionRule ==
    (/\ pc = "returned"
     /\ local.win_prob_A + local.win_prob_B = ProbOne) =>
        LET r == result.value
        IN  /\ r.win_prob_A = local.win_prob_A
            /\ r.win_prob_B = local.win_prob_B
            /\ r.winner = IF r.win_prob_A >= Half THEN args.a ELSE args.b
            /\ r.winner_prob = IF r.win_prob_A >= Half THEN r.win_prob_A
                                                       ELSE r.win_prob_B
            /\ r.winner_prob >= Half

\* An even game between two different teams went to team A.
C8_Witness ==
    /\ pc = "returned"
    /\ args.a # args.b
    /\ result.value.win_prob_A = Half
    /\ result.value.win_prob_B = Half
    /\ result.value.winner = args.a

\* C9: the scale is never below 5.8, is 5.8 * (1 + 0.5 * volatility)
\* whenever that is at least 5.8, and grows (weakly) with the volatility:
\* of two calls the one with the larger volatility has the larger scale.
C9_ScaleFloorMonotone ==
    LogisticDone =>
        /\ local.scale >= base_scale
        /\ (base_scale + TruncDiv(29 * local.volatility, 84) >= base_scale) =>
              local.scale = base_scale + TruncDiv(29 * local.volatility, 84)
        /\ (prev.set /\ IsTuple(prev.result) /\ prev.volatility <= local.volatility) =>
              prev.scale <= local.scale

\* A call with negative volatility sits on the floor, after a call with
\* positive volatility and a larger scale.
C9_Witness ==
    /\ LogisticDone
    /\ local.volatility < 0
    /\ local.scale = base_scale
    /\ prev.set
    /\ IsTuple(prev.result)
    /\ prev.volatility > 0
    /\ prev.scale > base_scale

\* A dict with other interior-scoring percentages.
WithPost(d, off, def) == SetItem(SetItem(d, "PostOff", off), "PostDef", def)

\* C10: for normalized records the interior differential is 0 and the
\* spread does not depend on PostOff / PostDef.
C10_NoInteriorTerm ==
    /\ MarginDone => local.two_diff = 0
    /\ pc = "logistic" =>
          \A offA \in {0, 1000}, defA \in {0, 1000}, offB \in {0, 1000}, defB \in {0, 1000} :
             local.spread = SpreadOf(WithPost(teamA, offA, defA),
                                     WithPost(teamB, offB, defB), args.location)

\* The margin was computed for teams whose PostOff and PostDef differ.
C10_Witness ==
    /\ pc = "logistic"
    /\ "2P_off" \notin DOMAIN teamA
    /\ "2P_def" \notin DOMAIN teamB
    /\ teamA["PostOff"] > teamB["PostDef"]
    /\ local.two_diff = 0

====
